---- MODULE Spec2Model ----
(***************************************************************************)
(* Anonymous Wallet Reputation System: the storage layer                   *)
(* (src/server/storage.ts), the tables and constraints it works on         *)
(* (src/shared/schema.ts) and the request handlers that call it            *)
(* (src/server/routes.ts).                                                 *)
(*                                                                         *)
(* Every `await db...` of the source is one SQL statement; the store       *)
(* executes a statement atomically and a handler can be suspended only     *)
(* between two statements.  A request slot p carries the handler's         *)
(* position (pc), its local variables (arg, scores, idx) and its last      *)
(* response (result).                                                      *)
(*                                                                         *)
(* A table is the sequence of its rows in insertion order; the serial ids  *)
(* of reputation_scores, leaderboard, activities and zk_proofs are the     *)
(* rows' positions.  Time is the integer `now`, read by `new Date()` and   *)
(* by defaultNow(); the timestamps of users and leaderboard, which no      *)
(* operation reads, are left out.                                          *)
(***************************************************************************)
EXTENDS Integers, Sequences, FiniteSets, TLC

VARIABLES
  users,             \* table users
  usersIdSeq,        \* serial behind users.id
  reputationScores,  \* table reputation_scores
  leaderboard,       \* table leaderboard
  activities,        \* table activities
  zkProofs,          \* table zk_proofs
  now,               \* the clock
  pc,                \* per request slot: the statement the handler issues next
  arg,               \* per request slot: the handler's parsed input
  scores,            \* per request slot: local `scores` of updateLeaderboard
  idx,               \* per request slot: loop variable `i` of updateLeaderboard
  result,            \* per request slot: outcome of the last finished request
  published,         \* history: the table as the last rebuild that ran to its end left it
  clean,             \* history: such a rebuild has ended and no identity or score changed since
  before,            \* history, per request slot: the table as it was when the slot's
                     \* running rebuild issued its DELETE
  requests,          \* history: requests received so far
  track              \* the histories a run records, fixed by its initial state

vars == <<users, usersIdSeq, reputationScores, leaderboard, activities, zkProofs, now,
          pc, arg, scores, idx, result, published, clean, before, requests, track>>

dbVars == <<users, usersIdSeq, reputationScores, leaderboard>>
lbLocals == <<scores, idx>>
ledgerVars == <<activities, zkProofs, now>>

----------------------------------------------------------------------------
(* Bounds *)

MaxUsers == 3        \* INSERTs attempted on users
MaxRecords == 2      \* rows of reputation_scores
MaxRequests == 3     \* requests received in a concurrent run
MaxTime == 2         \* ticks of the clock
MaxActivities == 3   \* INSERTs attempted on activities

(* Request slots: two handlers can be in flight together *)
Procs == {"r1", "r2"}

(* Input values *)

NULL == "NULL"          \* SQL NULL
NoTime == -1            \* SQL NULL in a timestamp column

Wallets == {"0xAA", "0xBB"}
UnknownWallet == "0xDD"
Chains == {"ethereum", "solana"}
PublicKeys == {"0x04c9"}
Pseudonyms == {"anon_1", "anon_2"}

----------------------------------------------------------------------------
(* Generic helpers *)

Range(s) == {s[i] : i \in 1..Len(s)}

\* A request body, an Insert<> value or a Partial<> patch is a record whose
\* domain is the set of keys it supplies.

\* a spread that carries over one of the keys of patch only
SpreadOne(row, patch) ==
  [f \in DOMAIN row |->
     IF f \in DOMAIN patch /\ f = (CHOOSE g \in DOMAIN patch : TRUE)
       THEN patch[f] ELSE row[f]]

\* { ...row, ...patch }: the keys present in patch override the row's
Spread(row, patch) ==
  [f \in DOMAIN row |-> IF f \in DOMAIN patch THEN patch[f] ELSE row[f]]

\* the value a column gets: the supplied one, else the column's default
Opt(b, f, default) == IF f \in DOMAIN b THEN b[f] ELSE default

\* the record b cut down to the keys K
Restrict(b, K) == [f \in K |-> b[f]]

Idle == "idle"
NoArg == [op |-> "none", input |-> NULL]
Call(op, input) == [op |-> op, input |-> input]
Response(op, status, value) == [op |-> op, status |-> status, value |-> value]
NoResponse == Response("none", "none", NULL)

InFlight == {p \in Procs : pc[p] # Idle}

----------------------------------------------------------------------------
(* History variables.  They record what has happened and are read by no    *)
(* statement of the program.  `track` names the ones a run records:        *)
(*   "published"  the table left by the last rebuild that ran to its end,  *)
(*                while no identity or score has changed since;            *)
(*   "before"     the table a running rebuild set out to replace;          *)
(*   "requests"   the number of requests received, which is then kept      *)
(*                within MaxRequests.                                      *)

RebuildPcs == {"lbDelete", "lbSelect", "lbInsert"}

\* this step is the return of slot p's updateLeaderboard
RebuildEnds(p) ==
  /\ pc[p] \in {"lbSelect", "lbInsert"}
  /\ pc'[p] = Idle
  /\ result'[p].status = "ok"

\* this step is a statement of slot p's updateLeaderboard throwing
RebuildFails(p) ==
  /\ pc[p] \in RebuildPcs
  /\ pc'[p] = Idle
  /\ result'[p].status = "error"

\* this step changes an identity or a reputation record
StoreChanges == users' # users \/ reputationScores' # reputationScores

HistPublished ==
  IF \E p \in Procs : RebuildEnds(p)
    THEN published' = leaderboard' /\ clean' = TRUE
    ELSE IF StoreChanges
      THEN published' = <<>> /\ clean' = FALSE
      ELSE UNCHANGED <<published, clean>>

HistBefore ==
  before' = [p \in Procs |->
               IF pc[p] = "lbDelete" /\ pc'[p] = "lbSelect" THEN leaderboard
               ELSE IF pc'[p] \in RebuildPcs THEN before[p]
               ELSE <<>>]

\* the last conjunct of every action; `arrives`: the step receives a request
History(arrives) ==
  /\ IF "published" \in track THEN HistPublished ELSE UNCHANGED <<published, clean>>
  /\ IF "before" \in track THEN HistBefore ELSE UNCHANGED before
  /\ requests' = IF arrives /\ "requests" \in track THEN requests + 1 ELSE requests
  /\ UNCHANGED track

\* a request can be received
Admitted == "requests" \in track => requests < MaxRequests

----------------------------------------------------------------------------
(* Table users (schema.ts) *)

UserRow(id, u) ==
  [id |-> id, walletAddress |-> u.walletAddress, chain |-> u.chain,
   publicKey |-> u.publicKey, pseudonymousId |-> u.pseudonymousId]

\* users.wallet_address declared without .unique()
WalletTakenUnchecked(tbl, w, exceptId) == FALSE

\* .unique() on users.wallet_address: another row already holds the value
WalletTaken(tbl, w, exceptId) ==
  \E i \in 1..Len(tbl) : tbl[i].id # exceptId /\ tbl[i].walletAddress = w

\* users.pseudonymous_id declared without .unique()
PseudonymTakenUnchecked(tbl, ps, exceptId) == FALSE

\* .unique() on users.pseudonymous_id: NULLs never collide
PseudonymTaken(tbl, ps, exceptId) ==
  /\ ps # NULL
  /\ \E i \in 1..Len(tbl) : tbl[i].id # exceptId /\ tbl[i].pseudonymousId = ps

\* the unique constraint of users a row would violate, NULL when none
UsersViolation(tbl, row) ==
  IF WalletTaken(tbl, row.walletAddress, row.id)
    THEN "users_wallet_address_unique"
    ELSE IF PseudonymTaken(tbl, row.pseudonymousId, row.id)
      THEN "users_pseudonymous_id_unique"
      ELSE NULL

UserById(id) == {u \in Range(users) : u.id = id}

\* insertUserSchema.parse: wallet_address and chain are NOT NULL columns
ValidUser(body) == {"walletAddress", "chain"} \subseteq DOMAIN body

----------------------------------------------------------------------------
(* Identity Registry *)

\* POST /api/users, up to the await: parse the body, generate a pseudonym
PostApiUsers(p, body, generated) ==
  /\ pc[p] = Idle
  /\ Admitted
  /\ usersIdSeq + Cardinality({q \in Procs : pc[q] = "createUser"}) < MaxUsers
  /\ IF ValidUser(body)
       THEN /\ arg' = [arg EXCEPT ![p] = Call("createUser",
                         [walletAddress |-> body.walletAddress,
                          chain |-> body.chain,
                          publicKey |-> Opt(body, "publicKey", NULL),
                          pseudonymousId |-> generated])]
            /\ pc' = [pc EXCEPT ![p] = "createUser"]
            /\ result' = [result EXCEPT ![p] = NoResponse]
       ELSE /\ result' = [result EXCEPT ![p] = Response("createUser", "validation", NULL)]
            /\ UNCHANGED <<pc, arg>>
  /\ UNCHANGED <<dbVars, lbLocals>>
  /\ UNCHANGED ledgerVars
  /\ History(TRUE)

\* storage.createUser called directly (test-database.ts): the caller supplies
\* the pseudonymous id, or leaves it out
CallCreateUser(p, insertUser) ==
  /\ pc[p] = Idle
  /\ Admitted
  /\ usersIdSeq + Cardinality({q \in Procs : pc[q] = "createUser"}) < MaxUsers
  /\ arg' = [arg EXCEPT ![p] = Call("createUser",
               [walletAddress |-> insertUser.walletAddress,
                chain |-> insertUser.chain,
                publicKey |-> Opt(insertUser, "publicKey", NULL),
                pseudonymousId |-> Opt(insertUser, "pseudonymousId", NULL)])]
  /\ pc' = [pc EXCEPT ![p] = "createUser"]
  /\ result' = [result EXCEPT ![p] = NoResponse]
  /\ UNCHANGED <<dbVars, lbLocals>>
  /\ UNCHANGED ledgerVars
  /\ History(TRUE)

\* storage.createUser: INSERT INTO users ... RETURNING
createUser(p) ==
  /\ pc[p] = "createUser"
  /\ LET row == UserRow(usersIdSeq + 1, arg[p].input)
     IN /\ usersIdSeq' = usersIdSeq + 1
        /\ IF UsersViolation(users, row) # NULL
             THEN /\ users' = users
                  /\ result' = [result EXCEPT ![p] =
                       Response("createUser", "conflict", UsersViolation(users, row))]
             ELSE /\ users' = Append(users, row)
                  /\ result' = [result EXCEPT ![p] = Response("createUser", "ok", NULL)]
  /\ pc' = [pc EXCEPT ![p] = Idle]
  /\ arg' = [arg EXCEPT ![p] = NoArg]
  /\ UNCHANGED <<reputationScores, leaderboard, lbLocals>>
  /\ UNCHANGED ledgerVars
  /\ History(FALSE)

\* storage.updateUser: UPDATE users SET ...updates WHERE id = $id RETURNING
updateUser(p, id, updates) ==
  /\ pc[p] = Idle
  /\ Admitted
  /\ IF UserById(id) = {}
       THEN /\ result' = [result EXCEPT ![p] = Response("updateUser", "notfound", NULL)]
            /\ UNCHANGED users
       ELSE LET old == CHOOSE u \in UserById(id) : TRUE
                new == Spread(old, updates)
            IN IF UsersViolation(users, new) # NULL
                 THEN /\ result' = [result EXCEPT ![p] =
                           Response("updateUser", "conflict", UsersViolation(users, new))]
                      /\ UNCHANGED users
                 ELSE /\ users' = [i \in 1..Len(users) |->
                                     IF users[i].id = id THEN new ELSE users[i]]
                      /\ result' = [result EXCEPT ![p] = Response("updateUser", "ok", NULL)]
  /\ UNCHANGED <<usersIdSeq, reputationScores, leaderboard, pc, arg, lbLocals>>
  /\ UNCHANGED ledgerVars
  /\ History(TRUE)

----------------------------------------------------------------------------
(* Table reputation_scores (schema.ts) *)

ScoreValues == {850, 900}        \* overall_score, decimal(10,2)
Levels == {"bronze", "gold"}

\* the row an insert stores: .default('0') for a category score left out,
\* NULL for zk_proof_hash, new Date() / defaultNow() for the timestamps
ScoreRow(s) ==
  [userId |-> s.userId, overallScore |-> s.overallScore,
   reputationLevel |-> s.reputationLevel,
   daoScore |-> Opt(s, "daoScore", 0), defiScore |-> Opt(s, "defiScore", 0),
   nftScore |-> Opt(s, "nftScore", 0), bridgeScore |-> Opt(s, "bridgeScore", 0),
   votingScore |-> Opt(s, "votingScore", 0),
   scamAvoidanceScore |-> Opt(s, "scamAvoidanceScore", 0),
   zkProofHash |-> Opt(s, "zkProofHash", NULL),
   lastCalculated |-> now, createdAt |-> now, updatedAt |-> now]

\* insertReputationScoreSchema.parse: the notNull() columns without default
ValidScore(body) ==
  {"userId", "overallScore", "reputationLevel"} \subseteq DOMAIN body

\* user_id references users.id
UserExists(id) == UserById(id) # {}

CategoryScores ==
  {"daoScore", "defiScore", "nftScore", "bridgeScore", "votingScore",
   "scamAvoidanceScore"}

\* an UPDATE that writes every category score, a default where none was
\* supplied
PatchedFromDefaults(row, updates) ==
  [Spread([f \in DOMAIN row |-> IF f \in CategoryScores THEN 0 ELSE row[f]], updates)
     EXCEPT !.lastCalculated = now, !.updatedAt = now]

\* the row an UPDATE ... SET { ...updates, lastCalculated, updatedAt } leaves
Patched(row, updates) ==
  [Spread(row, updates) EXCEPT !.lastCalculated = now, !.updatedAt = now]

----------------------------------------------------------------------------
(* Responses *)

\* the handler answers and the slot is free again
Respond(p, status, value) ==
  /\ pc' = [pc EXCEPT ![p] = Idle]
  /\ result' = [result EXCEPT ![p] = Response(arg[p].op, status, value)]
  /\ arg' = [arg EXCEPT ![p] = NoArg]

----------------------------------------------------------------------------
(* Reputation Store *)

\* a reputation route answering after its write without updateLeaderboard
RespondWithoutRebuild(p) == Respond(p, "ok", NULL)

\* `await storage.updateLeaderboard()` of the reputation routes
CallUpdateLeaderboard(p) ==
  /\ pc' = [pc EXCEPT ![p] = "lbDelete"]
  /\ UNCHANGED <<arg, result>>

\* POST /api/reputation, up to the first await
PostApiReputation(p, body) ==
  /\ pc[p] = Idle
  /\ Admitted
  /\ Len(reputationScores)
       + Cardinality({q \in Procs : pc[q] = "createReputationScore"}) < MaxRecords
  /\ IF ValidScore(body)
       THEN /\ arg' = [arg EXCEPT ![p] = Call("PostApiReputation", body)]
            /\ pc' = [pc EXCEPT ![p] = "createReputationScore"]
            /\ result' = [result EXCEPT ![p] = NoResponse]
       ELSE /\ result' = [result EXCEPT ![p] =
                            Response("PostApiReputation", "validation", NULL)]
            /\ UNCHANGED <<pc, arg>>
  /\ UNCHANGED <<dbVars, lbLocals>>
  /\ UNCHANGED ledgerVars
  /\ History(TRUE)

\* storage.createReputationScore: INSERT INTO reputation_scores ... RETURNING;
\* the route goes on to storage.updateLeaderboard()
createReputationScore(p) ==
  /\ pc[p] = "createReputationScore"
  /\ LET row == ScoreRow(arg[p].input)
     IN IF UserExists(row.userId)
          THEN /\ reputationScores' = Append(reputationScores, row)
               /\ CallUpdateLeaderboard(p)
          ELSE /\ Respond(p, "error", NULL)
               /\ UNCHANGED reputationScores
  /\ UNCHANGED <<users, usersIdSeq, leaderboard, lbLocals>>
  /\ UNCHANGED ledgerVars
  /\ History(FALSE)

\* PUT /api/reputation/:userId, up to the first await
PutApiReputation(p, userId, body) ==
  /\ pc[p] = Idle
  /\ Admitted
  /\ arg' = [arg EXCEPT ![p] =
               Call("PutApiReputation", [userId |-> userId, updates |-> body])]
  /\ pc' = [pc EXCEPT ![p] = "updateReputationScore"]
  /\ result' = [result EXCEPT ![p] = NoResponse]
  /\ UNCHANGED <<dbVars, lbLocals>>
  /\ UNCHANGED ledgerVars
  /\ History(TRUE)

\* a route that calls updateLeaderboard before it looks at what the UPDATE
\* returned
updateReputationScoreThenRebuild(p) ==
  /\ pc[p] = "updateReputationScore"
  /\ LET uid == arg[p].input.userId
         upd == arg[p].input.updates
         hit == {i \in 1..Len(reputationScores) : reputationScores[i].userId = uid}
     IN IF "userId" \in DOMAIN upd /\ ~UserExists(upd.userId) /\ hit # {}
          THEN /\ Respond(p, "error", NULL)
               /\ UNCHANGED reputationScores
          ELSE /\ reputationScores' =
                    [i \in 1..Len(reputationScores) |->
                       IF i \in hit THEN Patched(reputationScores[i], upd)
                                    ELSE reputationScores[i]]
               /\ CallUpdateLeaderboard(p)
  /\ UNCHANGED <<users, usersIdSeq, leaderboard, lbLocals>>
  /\ UNCHANGED ledgerVars
  /\ History(FALSE)

\* storage.updateReputationScore: UPDATE reputation_scores SET ...updates
\* WHERE user_id = $userId RETURNING; 404 when no row came back, else the
\* route goes on to storage.updateLeaderboard()
updateReputationScore(p) ==
  /\ pc[p] = "updateReputationScore"
  /\ LET uid == arg[p].input.userId
         upd == arg[p].input.updates
         hit == {i \in 1..Len(reputationScores) : reputationScores[i].userId = uid}
     IN IF hit = {}
          THEN /\ Respond(p, "notfound", NULL)
               /\ UNCHANGED reputationScores
          ELSE IF "userId" \in DOMAIN upd /\ ~UserExists(upd.userId)
            THEN /\ Respond(p, "error", NULL)
                 /\ UNCHANGED reputationScores
            ELSE /\ reputationScores' =
                      [i \in 1..Len(reputationScores) |->
                         IF i \in hit THEN Patched(reputationScores[i], upd)
                                      ELSE reputationScores[i]]
                 /\ CallUpdateLeaderboard(p)
  /\ UNCHANGED <<users, usersIdSeq, leaderboard, lbLocals>>
  /\ UNCHANGED ledgerVars
  /\ History(FALSE)

\* a query without its WHERE on users.wallet_address
RecordsOfAnyWallet(walletAddress) == 1..Len(reputationScores)

\* reputation_scores INNER JOIN users ON user_id = users.id
\* WHERE users.wallet_address = $walletAddress
RecordsByWallet(walletAddress) ==
  {i \in 1..Len(reputationScores) :
     \E u \in UserById(reputationScores[i].userId) : u.walletAddress = walletAddress}

\* GET /api/reputation/:walletAddress, up to the await
GetApiReputation(p, walletAddress) ==
  /\ pc[p] = Idle
  /\ Admitted
  /\ arg' = [arg EXCEPT ![p] = Call("getReputationScoreByWallet", walletAddress)]
  /\ pc' = [pc EXCEPT ![p] = "getReputationScoreByWallet"]
  /\ result' = [result EXCEPT ![p] = NoResponse]
  /\ UNCHANGED <<dbVars, lbLocals, ledgerVars>>
  /\ History(TRUE)

\* storage.getReputationScoreByWallet: the first row of the join, 404 when
\* there is none
getReputationScoreByWallet(p) ==
  /\ pc[p] = "getReputationScoreByWallet"
  /\ IF RecordsByWallet(arg[p].input) = {}
       THEN Respond(p, "notfound", NULL)
       ELSE \E i \in RecordsByWallet(arg[p].input) :
              Respond(p, "ok", reputationScores[i])
  /\ UNCHANGED <<dbVars, lbLocals, ledgerVars>>
  /\ History(FALSE)

----------------------------------------------------------------------------
(* Leaderboard Ranking Engine *)

\* ORDER BY key DESC over the rows S of a table: every arrangement that is
\* non-increasing in the key; the store is free in how it arranges equal keys
RECURSIVE OrderByDesc(_, _)
OrderByDesc(S, key) ==
  IF S = {} THEN {<<>>}
  ELSE LET top == {i \in S : \A j \in S : key[i] >= key[j]}
       IN UNION {{<<i>> \o t : t \in OrderByDesc(S \ {i}, key)} : i \in top}

\* the join without its WHERE users.pseudonymous_id IS NOT NULL
JoinedRowsAnyPseudonym ==
  {i \in 1..Len(reputationScores) : UserById(reputationScores[i].userId) # {}}

\* reputation_scores INNER JOIN users ON user_id = users.id
\* WHERE users.pseudonymous_id IS NOT NULL
JoinedRows ==
  {i \in 1..Len(reputationScores) :
     \E u \in UserById(reputationScores[i].userId) : u.pseudonymousId # NULL}

\* the score query selecting users.walletAddress where it selects
\* users.pseudonymousId
SelectedWallet(i) ==
  LET r == reputationScores[i]
      u == CHOOSE u \in UserById(r.userId) : TRUE
  IN [pseudonymousId |-> u.walletAddress,
      reputationLevel |-> r.reputationLevel,
      overallScore |-> r.overallScore,
      chain |-> u.chain]

\* the columns selected for one joined row
Selected(i) ==
  LET r == reputationScores[i]
      u == CHOOSE u \in UserById(r.userId) : TRUE
  IN [pseudonymousId |-> u.pseudonymousId,
      reputationLevel |-> r.reputationLevel,
      overallScore |-> r.overallScore,
      chain |-> u.chain]

\* the results the score query of updateLeaderboard can return
ScoreQuery ==
  LET key == [i \in JoinedRows |-> reputationScores[i].overallScore]
  IN {[j \in 1..Len(o) |-> Selected(o[j])] : o \in OrderByDesc(JoinedRows, key)}

\* the values of one INSERT INTO leaderboard
LeaderboardRow(score, rank) ==
  [pseudonymousId |-> score.pseudonymousId,
   reputationLevel |-> score.reputationLevel,
   overallScore |-> score.overallScore,
   chain |-> score.chain,
   rank |-> rank]

\* updateLeaderboard returns: the handler answers
RebuildDone(p) == Respond(p, "ok", NULL)

\* POST /api/leaderboard/update, or storage.updateLeaderboard() called directly
PostApiLeaderboardUpdate(p) ==
  /\ pc[p] = Idle
  /\ Admitted
  /\ arg' = [arg EXCEPT ![p] = Call("PostApiLeaderboardUpdate", NULL)]
  /\ pc' = [pc EXCEPT ![p] = "lbDelete"]
  /\ result' = [result EXCEPT ![p] = NoResponse]
  /\ UNCHANGED <<dbVars, lbLocals>>
  /\ UNCHANGED ledgerVars
  /\ History(TRUE)

\* updateLeaderboard, first statement: DELETE FROM leaderboard
lbDelete(p) ==
  /\ pc[p] = "lbDelete"
  /\ leaderboard' = <<>>
  /\ pc' = [pc EXCEPT ![p] = "lbSelect"]
  /\ UNCHANGED <<users, usersIdSeq, reputationScores, arg, result, lbLocals>>
  /\ UNCHANGED ledgerVars
  /\ History(FALSE)

\* updateLeaderboard, second statement: the score query
lbSelect(p) ==
  /\ pc[p] = "lbSelect"
  /\ \E s \in ScoreQuery :
       /\ scores' = [scores EXCEPT ![p] = IF Len(s) = 0 THEN <<>> ELSE s]
       /\ IF Len(s) = 0
            THEN RebuildDone(p)
            ELSE /\ pc' = [pc EXCEPT ![p] = "lbInsert"]
                 /\ UNCHANGED <<arg, result>>
  /\ idx' = [idx EXCEPT ![p] = 0]
  /\ UNCHANGED dbVars
  /\ UNCHANGED ledgerVars
  /\ History(FALSE)

\* updateLeaderboard, one turn of the loop: INSERT INTO leaderboard
lbInsert(p) ==
  /\ pc[p] = "lbInsert"
  /\ LET i == idx[p]
         last == (i + 1 = Len(scores[p]))
     IN /\ leaderboard' = Append(leaderboard, LeaderboardRow(scores[p][i + 1], i + 1))
        /\ IF last
             THEN /\ RebuildDone(p)
                  /\ scores' = [scores EXCEPT ![p] = <<>>]
                  /\ idx' = [idx EXCEPT ![p] = 0]
             ELSE /\ idx' = [idx EXCEPT ![p] = i + 1]
                  /\ UNCHANGED <<pc, arg, result, scores>>
  /\ UNCHANGED <<users, usersIdSeq, reputationScores>>
  /\ UNCHANGED ledgerVars
  /\ History(FALSE)

\* a statement of updateLeaderboard throws (store unavailable, request
\* cancelled): the route's catch answers 500 and nothing is undone
StoreFail(p) ==
  /\ pc[p] \in {"lbDelete", "lbSelect", "lbInsert"}
  /\ Respond(p, "error", NULL)
  /\ scores' = [scores EXCEPT ![p] = <<>>]
  /\ idx' = [idx EXCEPT ![p] = 0]
  /\ UNCHANGED <<dbVars>>
  /\ UNCHANGED ledgerVars
  /\ History(FALSE)

\* `chain` undefined or empty: `if (chain)` adds no filter
NoChain == ""

\* first n elements of a sequence
Take(s, n) == SubSeq(s, 1, IF n < Len(s) THEN n ELSE Len(s))

\* the results storage.getLeaderboard(limit, chain) can return
TopResults(limit, chain) ==
  LET S == {i \in 1..Len(leaderboard) :
              chain = NoChain \/ leaderboard[i].chain = chain}
      key == [i \in S |-> leaderboard[i].overallScore]
  IN {Take([j \in 1..Len(o) |-> leaderboard[o[j]]], limit) : o \in OrderByDesc(S, key)}

\* the results storage.getLeaderboardPosition(pseudonymousId) can return
PositionResults(pseudonymousId) ==
  LET S == {i \in 1..Len(leaderboard) :
              leaderboard[i].pseudonymousId = pseudonymousId}
  IN {leaderboard[i].rank : i \in S}

\* GET /api/leaderboard?limit=&chain=: the handler reads its query and calls
\* storage.getLeaderboard
GetApiLeaderboard(p, limit, chain) ==
  /\ pc[p] = Idle
  /\ Admitted
  /\ arg' = [arg EXCEPT ![p] = Call("getLeaderboard", [limit |-> limit, chain |-> chain])]
  /\ pc' = [pc EXCEPT ![p] = "getLeaderboard"]
  /\ result' = [result EXCEPT ![p] = NoResponse]
  /\ UNCHANGED <<dbVars, lbLocals, ledgerVars>>
  /\ History(TRUE)

\* storage.getLeaderboard: the SELECT, and the handler's res.json
getLeaderboard(p) ==
  /\ pc[p] = "getLeaderboard"
  /\ \E r \in TopResults(arg[p].input.limit, arg[p].input.chain) : Respond(p, "ok", r)
  /\ UNCHANGED <<dbVars, lbLocals, ledgerVars>>
  /\ History(FALSE)

\* GET /api/leaderboard/position/:pseudonymousId
GetApiLeaderboardPosition(p, pseudonymousId) ==
  /\ pc[p] = Idle
  /\ Admitted
  /\ arg' = [arg EXCEPT ![p] = Call("getLeaderboardPosition", pseudonymousId)]
  /\ pc' = [pc EXCEPT ![p] = "getLeaderboardPosition"]
  /\ result' = [result EXCEPT ![p] = NoResponse]
  /\ UNCHANGED <<dbVars, lbLocals, ledgerVars>>
  /\ History(TRUE)

\* storage.getLeaderboardPosition: the SELECT, `entry?.rank`, and the
\* handler's 404 when it is undefined
getLeaderboardPosition(p) ==
  /\ pc[p] = "getLeaderboardPosition"
  /\ IF PositionResults(arg[p].input) = {}
       THEN Respond(p, "notfound", NULL)
       ELSE \E r \in PositionResults(arg[p].input) : Respond(p, "ok", r)
  /\ UNCHANGED <<dbVars, lbLocals, ledgerVars>>
  /\ History(FALSE)

----------------------------------------------------------------------------
(* Table zk_proofs (schema.ts) and the Proof Registry *)

ProofHashes == {"0xh1", "0xh2"}

\* the row an insert stores: .default(true) for is_valid, NULL for expires_at
ProofRow(z) ==
  [userId |-> z.userId, proofHash |-> z.proofHash,
   isValid |-> Opt(z, "isValid", TRUE),
   expiresAt |-> Opt(z, "expiresAt", NoTime),
   createdAt |-> now]

\* zk_proofs.proof_hash declared without .unique()
ProofHashTakenUnchecked(tbl, h) == FALSE

\* .unique() on zk_proofs.proof_hash
ProofHashTaken(tbl, h) == \E i \in 1..Len(tbl) : tbl[i].proofHash = h

\* storage.createZkProof(insertProof) is called
CallCreateZkProof(p, insertProof) ==
  /\ pc[p] = Idle
  /\ Admitted
  /\ arg' = [arg EXCEPT ![p] = Call("createZkProof", insertProof)]
  /\ pc' = [pc EXCEPT ![p] = "createZkProof"]
  /\ result' = [result EXCEPT ![p] = NoResponse]
  /\ UNCHANGED <<dbVars, lbLocals, ledgerVars>>
  /\ History(TRUE)

\* storage.createZkProof: INSERT INTO zk_proofs ... RETURNING; the unique
\* index is checked as the row goes in, the foreign key at the statement's end
createZkProof(p) ==
  /\ pc[p] = "createZkProof"
  /\ LET row == ProofRow(arg[p].input)
     IN IF ProofHashTaken(zkProofs, row.proofHash)
          THEN /\ Respond(p, "conflict", "zk_proofs_proof_hash_unique")
               /\ UNCHANGED zkProofs
          ELSE IF ~UserExists(row.userId)
            THEN /\ Respond(p, "error", NULL)
                 /\ UNCHANGED zkProofs
            ELSE /\ zkProofs' = Append(zkProofs, row)
                 /\ Respond(p, "ok", NULL)
  /\ UNCHANGED <<dbVars, lbLocals, activities, now>>
  /\ History(FALSE)

\* the rows the select of validateZkProof returns
ProofsByHash(proofHash) == {z \in Range(zkProofs) : z.proofHash = proofHash}

\* validateZkProof without its check of is_valid
ValidatedIgnoringFlag(proofHash) ==
  IF ProofsByHash(proofHash) = {} THEN FALSE
  ELSE LET proof == CHOOSE z \in ProofsByHash(proofHash) : TRUE
       IN IF proof.expiresAt # NoTime /\ proof.expiresAt < now THEN FALSE
          ELSE TRUE

\* what validateZkProof returns at the current time
Validated(proofHash) ==
  IF ProofsByHash(proofHash) = {} THEN FALSE
  ELSE LET proof == CHOOSE z \in ProofsByHash(proofHash) : TRUE
       IN IF ~proof.isValid THEN FALSE
          ELSE IF proof.expiresAt # NoTime /\ proof.expiresAt < now THEN FALSE
          ELSE TRUE

\* GET /api/zkproofs/verify/:proofHash, up to the await
GetApiZkproofsVerify(p, proofHash) ==
  /\ pc[p] = Idle
  /\ Admitted
  /\ arg' = [arg EXCEPT ![p] = Call("validateZkProof", proofHash)]
  /\ pc' = [pc EXCEPT ![p] = "validateZkProof"]
  /\ result' = [result EXCEPT ![p] = NoResponse]
  /\ UNCHANGED <<dbVars, lbLocals, ledgerVars>>
  /\ History(TRUE)

\* a validateZkProof that clears is_valid on the proof it finds not valid
validateZkProofMarking(p) ==
  /\ pc[p] = "validateZkProof"
  /\ Respond(p, "ok", Validated(arg[p].input))
  /\ zkProofs' = [i \in 1..Len(zkProofs) |->
                    IF zkProofs[i].proofHash = arg[p].input /\ ~Validated(arg[p].input)
                      THEN [zkProofs[i] EXCEPT !.isValid = FALSE]
                      ELSE zkProofs[i]]
  /\ UNCHANGED <<dbVars, lbLocals, activities, now>>
  /\ History(FALSE)

\* storage.validateZkProof: the select, then the checks against new Date()
validateZkProof(p) ==
  /\ pc[p] = "validateZkProof"
  /\ Respond(p, "ok", Validated(arg[p].input))
  /\ UNCHANGED <<dbVars, lbLocals, ledgerVars>>
  /\ History(FALSE)

----------------------------------------------------------------------------
(* Table activities (schema.ts) and the Activity Ledger *)

EventTimes == {1, 2}

\* the row an insert stores; timestamp is the event's own time
ActivityRow(a) ==
  [userId |-> a.userId, activityType |-> a.activityType,
   scoreImpact |-> a.scoreImpact, timestamp |-> a.timestamp,
   createdAt |-> now]

\* insertActivitySchema.parse: the notNull() columns without default
ValidActivity(body) ==
  {"userId", "activityType", "scoreImpact", "timestamp"} \subseteq DOMAIN body

\* an insert that replaces the rows of the table
Overwritten(tbl, row) == << row >>

\* INSERT INTO tbl VALUES row
Inserted(tbl, row) == Append(tbl, row)

\* POST /api/activities, up to the await
PostApiActivities(p, body) ==
  /\ pc[p] = Idle
  /\ Admitted
  /\ Len(activities) + Cardinality({q \in Procs : pc[q] = "createActivity"})
       < MaxActivities
  /\ IF ValidActivity(body)
       THEN /\ arg' = [arg EXCEPT ![p] = Call("createActivity", body)]
            /\ pc' = [pc EXCEPT ![p] = "createActivity"]
            /\ result' = [result EXCEPT ![p] = NoResponse]
       ELSE /\ result' = [result EXCEPT ![p] =
                            Response("createActivity", "validation", NULL)]
            /\ UNCHANGED <<pc, arg>>
  /\ UNCHANGED <<dbVars, lbLocals, ledgerVars>>
  /\ History(TRUE)

\* storage.createActivity: INSERT INTO activities ... RETURNING
createActivity(p) ==
  /\ pc[p] = "createActivity"
  /\ LET row == ActivityRow(arg[p].input)
     IN IF UserExists(row.userId)
          THEN /\ activities' = Inserted(activities, row)
               /\ Respond(p, "ok", NULL)
          ELSE /\ Respond(p, "error", NULL)
               /\ UNCHANGED activities
  /\ UNCHANGED <<dbVars, lbLocals, zkProofs, now>>
  /\ History(FALSE)

\* the results storage.getActivitiesByWallet(walletAddress, limit) can return
ActivitiesByWallet(walletAddress, limit) ==
  LET S == {i \in 1..Len(activities) :
              \E u \in UserById(activities[i].userId) : u.walletAddress = walletAddress}
      key == [i \in S |-> activities[i].timestamp]
  IN {Take([j \in 1..Len(o) |-> activities[o[j]]], limit) : o \in OrderByDesc(S, key)}

\* GET /api/activities/:walletAddress
getActivitiesByWallet(p, walletAddress, limit) ==
  /\ pc[p] = Idle
  /\ Admitted
  /\ \E r \in ActivitiesByWallet(walletAddress, limit) :
       result' = [result EXCEPT ![p] = Response("getActivitiesByWallet", "ok", r)]
  /\ UNCHANGED <<dbVars, pc, arg, lbLocals, ledgerVars>>
  /\ History(TRUE)

\* a getActivities without its ORDER BY: the rows as they were inserted
ActivitiesInCreationOrder(userId, limit) ==
  LET S == {i \in 1..Len(activities) : activities[i].userId = userId}
      key == [i \in S |-> 0 - i]
  IN {Take([j \in 1..Len(o) |-> activities[o[j]]], limit) : o \in OrderByDesc(S, key)}

\* the results storage.getActivities(userId, limit) can return
ActivitiesOf(userId, limit) ==
  LET S == {i \in 1..Len(activities) : activities[i].userId = userId}
      key == [i \in S |-> activities[i].timestamp]
  IN {Take([j \in 1..Len(o) |-> activities[o[j]]], limit) : o \in OrderByDesc(S, key)}

\* storage.getActivities(userId, limit) is called
CallGetActivities(p, userId, limit) ==
  /\ pc[p] = Idle
  /\ Admitted
  /\ arg' = [arg EXCEPT ![p] = Call("getActivities", [userId |-> userId, limit |-> limit])]
  /\ pc' = [pc EXCEPT ![p] = "getActivities"]
  /\ result' = [result EXCEPT ![p] = NoResponse]
  /\ UNCHANGED <<dbVars, lbLocals, ledgerVars>>
  /\ History(TRUE)

\* storage.getActivities: SELECT ... WHERE user_id ORDER BY timestamp DESC LIMIT
getActivities(p) ==
  /\ pc[p] = "getActivities"
  /\ \E r \in ActivitiesOf(arg[p].input.userId, arg[p].input.limit) :
       Respond(p, "ok", r)
  /\ UNCHANGED <<dbVars, lbLocals, ledgerVars>>
  /\ History(FALSE)

----------------------------------------------------------------------------
(* Clock *)

\* a clock that can also be set back
ClockSetBack ==
  /\ now' \in {t \in {now - 1, now + 1} : 0 <= t /\ t <= MaxTime}
  /\ UNCHANGED <<dbVars, activities, zkProofs, pc, arg, lbLocals, result>>
  /\ History(FALSE)

\* time passes between two statements
Tick ==
  /\ now < MaxTime
  /\ now' = now + 1
  /\ UNCHANGED <<dbVars, activities, zkProofs, pc, arg, lbLocals, result>>
  /\ History(FALSE)

----------------------------------------------------------------------------
(* Registry specification: registrations and metadata updates racing on an *)
(* empty store                                                             *)

EmptyStore ==
  /\ users = <<>>
  /\ usersIdSeq = 0
  /\ reputationScores = <<>>
  /\ leaderboard = <<>>
  /\ activities = <<>>
  /\ zkProofs = <<>>
  /\ now = 0

AllIdle ==
  /\ pc = [p \in Procs |-> Idle]
  /\ arg = [p \in Procs |-> NoArg]
  /\ scores = [p \in Procs |-> <<>>]
  /\ idx = [p \in Procs |-> 0]
  /\ result = [p \in Procs |-> NoResponse]

NoHistory ==
  /\ published = <<>>
  /\ clean = FALSE
  /\ before = [p \in Procs |-> <<>>]
  /\ requests = 0

InitRegistry ==
  /\ EmptyStore
  /\ AllIdle
  /\ NoHistory
  /\ track = {}

\* bodies of POST /api/users: one of them lacks the wallet address
UserBodies ==
  [walletAddress : Wallets, chain : {"ethereum"}] \cup {[chain |-> "ethereum"]}

\* arguments of a direct storage.createUser: with or without a pseudonymous id
InsertUsers ==
  [walletAddress : Wallets, chain : {"solana"}, pseudonymousId : Pseudonyms]
    \cup [walletAddress : Wallets, chain : {"solana"}]

\* arguments of storage.updateUser: every subset of the three keys
UserPatches ==
  {Restrict(b, K) :
     b \in [walletAddress : Wallets, publicKey : PublicKeys,
            pseudonymousId : Pseudonyms \cup {NULL}],
     K \in SUBSET {"walletAddress", "publicKey", "pseudonymousId"}}

NextRegistry ==
  \E p \in Procs :
    \/ \E body \in UserBodies, g \in Pseudonyms : PostApiUsers(p, body, g)
    \/ \E u \in InsertUsers : CallCreateUser(p, u)
    \/ createUser(p)
    \/ \E id \in 1..MaxUsers, u \in UserPatches : updateUser(p, id, u)

SpecRegistry == InitRegistry /\ [][NextRegistry]_vars

----------------------------------------------------------------------------
(* Ranking specification: one request at a time; score writes through the  *)
(* reputation routes, rebuilds and leaderboard reads, over three           *)
(* registered identities                                                   *)

RegisteredUsers ==
  << [id |-> 1, walletAddress |-> "0xAA", chain |-> "ethereum",
      publicKey |-> NULL, pseudonymousId |-> "anon_1"],
     [id |-> 2, walletAddress |-> "0xBB", chain |-> "solana",
      publicKey |-> NULL, pseudonymousId |-> "anon_2"],
     [id |-> 3, walletAddress |-> "0xCC", chain |-> "ethereum",
      publicKey |-> NULL, pseudonymousId |-> NULL] >>

InitRank ==
  /\ users = RegisteredUsers
  /\ usersIdSeq = 3
  /\ reputationScores = <<>>
  /\ leaderboard = <<>>
  /\ activities = <<>>
  /\ zkProofs = <<>>
  /\ now = 0
  /\ AllIdle
  /\ NoHistory
  /\ track = {"published"}

UserIds == 1..4      \* 4: no such identity

\* bodies of POST /api/reputation: no category score; some lack overallScore
ScoreBodies ==
  [userId : UserIds, overallScore : ScoreValues, reputationLevel : Levels]
    \cup [userId : UserIds, reputationLevel : Levels]

\* bodies of PUT /api/reputation/:userId: every subset of the two keys
ScorePatches ==
  {Restrict(b, K) :
     b \in [overallScore : ScoreValues, reputationLevel : Levels],
     K \in SUBSET {"overallScore", "reputationLevel"}}

Seq1 == "r1"

Limits == {1, 100}     \* 100: the default of getLeaderboard

NextRank ==
  \/ \E body \in ScoreBodies : PostApiReputation(Seq1, body)
  \/ createReputationScore(Seq1)
  \/ \E id \in UserIds, body \in ScorePatches : PutApiReputation(Seq1, id, body)
  \/ updateReputationScore(Seq1)
  \/ PostApiLeaderboardUpdate(Seq1)
  \/ lbDelete(Seq1)
  \/ lbSelect(Seq1)
  \/ lbInsert(Seq1)
  \/ \E limit \in Limits, chain \in Chains \cup {NoChain} : GetApiLeaderboard(Seq1, limit, chain)
  \/ getLeaderboard(Seq1)
  \/ \E ps \in Pseudonyms : GetApiLeaderboardPosition(Seq1, ps)
  \/ getLeaderboardPosition(Seq1)
  \/ \E w \in Wallets \cup {UnknownWallet} : GetApiReputation(Seq1, w)
  \/ getReputationScoreByWallet(Seq1)

SpecRank == InitRank /\ [][NextRank]_vars

----------------------------------------------------------------------------
(* Concurrent specification: two request slots; score writes, rebuilds,    *)
(* failing statements and leaderboard reads interleave at statement        *)
(* boundaries.  The store starts with one scored identity and its          *)
(* published leaderboard.                                                  *)

InitConc ==
  /\ users = RegisteredUsers
  /\ usersIdSeq = 3
  /\ activities = <<>>
  /\ zkProofs = <<>>
  /\ now = 0
  /\ reputationScores =
       << ScoreRow([userId |-> 1, overallScore |-> 900, reputationLevel |-> "gold"]) >>
  /\ leaderboard =
       << [pseudonymousId |-> "anon_1", reputationLevel |-> "gold",
           overallScore |-> 900, chain |-> "ethereum", rank |-> 1] >>
  /\ AllIdle
  /\ NoHistory
  /\ track = {"before", "requests"}

\* bodies of POST /api/reputation in the concurrent runs
ConcBodies == [userId : {2}, overallScore : ScoreValues, reputationLevel : {"bronze"}]

\* bodies of PUT /api/reputation/:userId in the concurrent runs
ConcPatches == [overallScore : ScoreValues]

NextConc ==
  \E p \in Procs :
    \/ \E body \in ConcBodies : PostApiReputation(p, body)
    \/ createReputationScore(p)
    \/ \E id \in {1, 2}, body \in ConcPatches : PutApiReputation(p, id, body)
    \/ updateReputationScore(p)
    \/ PostApiLeaderboardUpdate(p)
    \/ lbDelete(p)
    \/ lbSelect(p)
    \/ lbInsert(p)
    \/ StoreFail(p)
    \/ \E limit \in Limits, chain \in Chains \cup {NoChain} : GetApiLeaderboard(p, limit, chain)
    \/ getLeaderboard(p)
    \/ \E ps \in Pseudonyms : GetApiLeaderboardPosition(p, ps)
    \/ getLeaderboardPosition(p)

SpecConc == InitConc /\ [][NextConc]_vars

----------------------------------------------------------------------------
(* Score specification: two request slots; creates and partial updates     *)
(* that carry category scores, and the rebuilds they trigger, while the    *)
(* clock runs.  Identity 1 starts with a record and its leaderboard entry. *)

InitRecord ==
  [userId |-> 1, overallScore |-> 900, reputationLevel |-> "gold",
   daoScore |-> 10, defiScore |-> 20, nftScore |-> 0, bridgeScore |-> 0,
   votingScore |-> 0, scamAvoidanceScore |-> 0, zkProofHash |-> NULL,
   lastCalculated |-> 0, createdAt |-> 0, updatedAt |-> 0]

InitScore ==
  /\ users = RegisteredUsers
  /\ usersIdSeq = 3
  /\ reputationScores = << InitRecord >>
  /\ leaderboard =
       << [pseudonymousId |-> "anon_1", reputationLevel |-> "gold",
           overallScore |-> 900, chain |-> "ethereum", rank |-> 1] >>
  /\ activities = <<>>
  /\ zkProofs = <<>>
  /\ now = 0
  /\ AllIdle
  /\ NoHistory
  /\ track = {"requests"}

DefiValues == {-5, 30}

\* bodies of POST /api/reputation that carry a category score
CategoryBodies ==
  [userId : {2}, overallScore : {850}, reputationLevel : {"bronze"},
   defiScore : DefiValues]

\* bodies of PUT /api/reputation/:userId: one category score, or two
CategoryPatches ==
  { [defiScore |-> 30], [nftScore |-> 40],
    [defiScore |-> 30, nftScore |-> 40], [defiScore |-> -5, nftScore |-> 41] }

NextScore ==
  \/ \E p \in Procs :
       \/ \E body \in CategoryBodies : PostApiReputation(p, body)
       \/ createReputationScore(p)
       \/ \E body \in CategoryPatches : PutApiReputation(p, 1, body)
       \/ updateReputationScore(p)
       \/ lbDelete(p)
       \/ lbSelect(p)
       \/ lbInsert(p)
  \/ Tick

SpecScore == InitScore /\ [][NextScore]_vars

----------------------------------------------------------------------------
(* Proof specification: registrations and validity checks of proofs in two *)
(* request slots, while the clock runs                                     *)

InitProof ==
  /\ users = RegisteredUsers
  /\ usersIdSeq = 3
  /\ reputationScores = <<>>
  /\ leaderboard = <<>>
  /\ activities = <<>>
  /\ zkProofs = <<>>
  /\ now = 0
  /\ AllIdle
  /\ NoHistory
  /\ track = {}

ExpiryTimes == {1}

\* arguments of storage.createZkProof: is_valid left out or false, expires_at
\* left out or set; one of them names an identity that does not exist
InsertProofs ==
  {Restrict(b, K \cup {"userId", "proofHash"}) :
     b \in [userId : {1}, proofHash : ProofHashes, isValid : {FALSE},
            expiresAt : ExpiryTimes],
     K \in SUBSET {"isValid", "expiresAt"}}
    \cup {[userId |-> 4, proofHash |-> "0xh1"]}

UnknownHash == "0xh9"

NextProof ==
  \/ \E p \in Procs :
       \/ \E z \in InsertProofs : CallCreateZkProof(p, z)
       \/ createZkProof(p)
       \/ \E h \in ProofHashes \cup {UnknownHash} : GetApiZkproofsVerify(p, h)
       \/ validateZkProof(p)
  \/ Tick

SpecProof == InitProof /\ [][NextProof]_vars

----------------------------------------------------------------------------
(* Ledger specification: appends to the activity ledger and reads of it in *)
(* two request slots                                                       *)

InitLedger ==
  /\ users = RegisteredUsers
  /\ usersIdSeq = 3
  /\ reputationScores = <<>>
  /\ leaderboard = <<>>
  /\ activities = <<>>
  /\ zkProofs = <<>>
  /\ now = 0
  /\ AllIdle
  /\ NoHistory
  /\ track = {}

\* bodies of POST /api/activities: of identities 1 and 2, of an identity
\* that does not exist, and one without its timestamp
ActivityBodies ==
  [userId : {1, 2}, activityType : {"dao_vote"}, scoreImpact : {5},
   timestamp : EventTimes]
    \cup {[userId |-> 4, activityType |-> "dao_vote", scoreImpact |-> 5,
            timestamp |-> 1],
           [userId |-> 1, activityType |-> "dao_vote", scoreImpact |-> 5]}

NextLedger ==
  \E p \in Procs :
    \/ \E body \in ActivityBodies : PostApiActivities(p, body)
    \/ createActivity(p)
    \/ \E w \in Wallets \cup {UnknownWallet}, limit \in Limits :
         getActivitiesByWallet(p, w, limit)
    \/ \E id \in {1, 2}, limit \in Limits : CallGetActivities(p, id, limit)
    \/ getActivities(p)

SpecLedger == InitLedger /\ [][NextLedger]_vars

----------------------------------------------------------------------------
(* Properties of the Leaderboard Ranking Engine *)

Rebuilding == {p \in Procs : pc[p] \in RebuildPcs}

RecordsOf(userId) ==
  {i \in 1..Len(reputationScores) : reputationScores[i].userId = userId}

\* the table slot p's running rebuild set out to replace
OldTable(p) == IF pc[p] = "lbDelete" THEN leaderboard ELSE before[p]

\* the rows slot p's running rebuild is writing, known once its score query
\* has returned
NewRows(p) == {LeaderboardRow(scores[p][j], j) : j \in 1..Len(scores[p])}

\* identities with a pseudonymous id and a reputation record
Eligible ==
  {u \in Range(users) :
     /\ u.pseudonymousId # NULL
     /\ \E i \in 1..Len(reputationScores) : reputationScores[i].userId = u.id}

Ranks(table) == {table[i].rank : i \in 1..Len(table)}

\* the identities an entry stands for
OwnersOf(e) == {u \in Range(users) : u.pseudonymousId = e.pseudonymousId}

\* C1: while one rebuild is running, what top() and positionOf() return is
\* made of the complete table the rebuild set out to replace or of the
\* complete new one, never an empty or partly filled table.
C1_ReadersSeeWholeSnapshot ==
  \A p \in Procs :
    Rebuilding = {p} =>
      /\ \A r \in TopResults(100, NoChain) :
           \/ Range(r) = Range(OldTable(p))
           \/ pc[p] = "lbInsert" /\ Range(r) = NewRows(p)
      /\ \A ps \in Pseudonyms :
           \/ PositionResults(ps) =
                {e.rank : e \in {x \in Range(OldTable(p)) : x.pseudonymousId = ps}}
           \/ /\ pc[p] = "lbInsert"
              /\ PositionResults(ps) =
                   {e.rank : e \in {x \in NewRows(p) : x.pseudonymousId = ps}}

\* C2: once a rebuild has run to its end with nothing else in flight, the
\* table holds exactly one entry per eligible identity, the ranks are
\* exactly 1..N, and a smaller rank never goes with a smaller overall score.
C2_RanksAreOneToN ==
  (pc[Seq1] = Idle /\ clean) =>
    /\ Len(leaderboard) = Cardinality(Eligible)
    /\ Ranks(leaderboard) = 1..Cardinality(Eligible)
    /\ \A i, j \in 1..Len(leaderboard) :
         leaderboard[i].rank < leaderboard[j].rank =>
           leaderboard[i].overallScore >= leaderboard[j].overallScore

\* C3: after a rebuild, of two entries with the same overall score the one
\* of the identity registered earlier has the smaller rank.
C3_TiesByRegistrationOrder ==
  (pc[Seq1] = Idle /\ clean) =>
    \A i, j \in 1..Len(leaderboard) :
      \A u \in OwnersOf(leaderboard[i]), v \in OwnersOf(leaderboard[j]) :
        (leaderboard[i].overallScore = leaderboard[j].overallScore /\ u.id < v.id)
          => leaderboard[i].rank < leaderboard[j].rank

\* C4: a rebuild that ends while no identity or score has changed since the
\* previous rebuild ended leaves the same rows (pseudonymous id, rank, level,
\* score, chain) as that previous rebuild.
C4_RebuildIdempotent ==
  [][(clean /\ RebuildEnds(Seq1) /\ clean') => Range(leaderboard') = Range(published)]_vars

\* no identity has two reputation records
OneRecordEach ==
  \A i, j \in 1..Len(reputationScores) :
    i # j => reputationScores[i].userId # reputationScores[j].userId

RebuildOps == {"PostApiLeaderboardUpdate", "PostApiReputation", "PutApiReputation"}

\* C5: when two requests were received, each ran a rebuild and both have
\* answered, the table is what one rebuild writes: one entry per eligible
\* identity, ranks exactly 1..N, no pseudonymous id and no rank twice.
C5_RebuildsDoNotInterleave ==
  ( /\ requests = 2
    /\ \A p \in Procs :
         pc[p] = Idle /\ result[p].status = "ok" /\ result[p].op \in RebuildOps
    /\ OneRecordEach )
  => /\ Len(leaderboard) = Cardinality(Eligible)
     /\ Ranks(leaderboard) = 1..Cardinality(Eligible)
     /\ \A i, j \in 1..Len(leaderboard) :
          i # j => leaderboard[i].pseudonymousId # leaderboard[j].pseudonymousId

\* C6: when a statement of the only running rebuild fails, the table is left
\* as it was before that rebuild began.
C6_FailedRebuildKeepsSnapshot ==
  [][\A p \in Procs :
       (Rebuilding = {p} /\ RebuildFails(p)) => leaderboard' = OldTable(p)]_vars

LeaderboardFields ==
  {"pseudonymousId", "reputationLevel", "overallScore", "chain", "rank"}

\* C7: a leaderboard entry has the columns pseudonymous id, level, overall
\* score, chain and rank and no other, and none of its text columns holds
\* the wallet address of an identity.
C7_NoWalletInSnapshot ==
  \A i \in 1..Len(leaderboard) :
    /\ DOMAIN leaderboard[i] = LeaderboardFields
    /\ \A u \in Range(users) :
         /\ leaderboard[i].pseudonymousId # u.walletAddress
         /\ leaderboard[i].reputationLevel # u.walletAddress
         /\ leaderboard[i].chain # u.walletAddress

\* C7 witness: a rebuild has written the entries of two identities
C7_Witness ==
  /\ clean
  /\ {leaderboard[i].pseudonymousId : i \in 1..Len(leaderboard)} = {"anon_1", "anon_2"}

\* C16: the entries getLeaderboard returns are in ascending rank order: of
\* two consecutive entries the earlier has the smaller rank, also when
\* entries have equal overall scores.
C16_TopInRankOrder ==
  \A p \in Procs :
    result[p].op = "getLeaderboard" =>
      \A k \in 1..(Len(result[p].value) - 1) :
        result[p].value[k].rank < result[p].value[k + 1].rank

ScoreWrites == {"PostApiReputation", "PutApiReputation"}

\* this step is the successful answer of slot p's score create or update
WriteCompletes(p) ==
  /\ arg[p].op \in ScoreWrites
  /\ pc[p] # Idle /\ pc'[p] = Idle
  /\ result'[p].status = "ok"

\* the table ranks identity u by the overall score and level of record r
RankedBy(table, u, r) ==
  \E k \in 1..Len(table) :
    /\ table[k].pseudonymousId = u.pseudonymousId
    /\ table[k].overallScore = r.overallScore
    /\ table[k].reputationLevel = r.reputationLevel
    /\ \A j \in 1..Len(table) :
         table[j].overallScore > r.overallScore => table[j].rank < table[k].rank

EntriesOf(table, u) ==
  {k \in 1..Len(table) : table[k].pseudonymousId = u.pseudonymousId}

\* C25: once a rebuild has run to its end, an identity has an entry in the
\* table exactly when it has a pseudonymous id and a reputation record, every
\* record of such an identity has an entry with its level and overall score,
\* and every entry carries the pseudonymous id and chain of an identity and
\* the level and overall score of a record of that same identity.
C25_EntriesAreScoredPseudonyms ==
  (pc[Seq1] = Idle /\ clean) =>
    /\ \A u \in Range(users) : (EntriesOf(leaderboard, u) # {}) <=> (u \in Eligible)
    /\ \A u \in Eligible : \A r \in RecordsOf(u.id) :
         \E k \in EntriesOf(leaderboard, u) :
           /\ leaderboard[k].reputationLevel = reputationScores[r].reputationLevel
           /\ leaderboard[k].overallScore = reputationScores[r].overallScore
    /\ \A k \in 1..Len(leaderboard) :
         \E u \in Eligible : \E r \in RecordsOf(u.id) :
           /\ leaderboard[k].pseudonymousId = u.pseudonymousId
           /\ leaderboard[k].chain = u.chain
           /\ leaderboard[k].reputationLevel = reputationScores[r].reputationLevel
           /\ leaderboard[k].overallScore = reputationScores[r].overallScore

\* C25 witness: a rebuild has run while identity 1 and identity 3 (no
\* pseudonymous id) have a record and identity 2 has none; the table holds
\* the one entry of identity 1
C25_Witness ==
  /\ pc[Seq1] = Idle /\ clean
  /\ RecordsOf(1) # {} /\ RecordsOf(2) = {} /\ RecordsOf(3) # {}
  /\ Len(leaderboard) = 1
  /\ leaderboard[1].pseudonymousId = "anon_1" /\ leaderboard[1].chain = "ethereum"

\* this step is the answer of slot p's position read
ReadsPosition(p) == pc[p] = "getLeaderboardPosition" /\ pc'[p] = Idle

\* C26: a position read of a pseudonymous id answers rank r exactly when the
\* table holds an entry of that id with rank r, so an id that has an entry
\* has one rank and that rank is the answer; it answers not-found exactly
\* when the table holds no entry of the id.
C26_PositionIsTheRank ==
  [][\A p \in Procs :
       ReadsPosition(p) =>
         LET held == {leaderboard[k].rank :
                        k \in {i \in 1..Len(leaderboard) :
                                 leaderboard[i].pseudonymousId = arg[p].input}}
         IN /\ (result'[p].status = "notfound") <=> (held = {})
            /\ (result'[p].status = "ok") <=> (held # {})
            /\ result'[p].status = "ok" => held = {result'[p].value}]_vars

\* this step is the answer of slot p's leaderboard read
ReadsTop(p) == pc[p] = "getLeaderboard" /\ pc'[p] = Idle

\* the entries of the table a chain filter lets through
Matching(chain) ==
  {i \in 1..Len(leaderboard) : chain = NoChain \/ leaderboard[i].chain = chain}

\* C27: a leaderboard read with a limit and a chain filter returns
\* min(limit, M) entries, M the number of entries the filter lets through;
\* each returned entry is one of those entries as stored, rank included; and
\* they are the best ranked: an entry the filter lets through that is not
\* returned has a greater rank than every returned one.
C27_TopIsBestRanked ==
  [][\A p \in Procs :
       ReadsTop(p) =>
         LET M == Matching(arg[p].input.chain)
             limit == arg[p].input.limit
             top == result'[p].value
         IN /\ Len(top) = IF limit < Cardinality(M) THEN limit ELSE Cardinality(M)
            /\ \A k \in 1..Len(top) : \E i \in M : top[k] = leaderboard[i]
            /\ \A i \in M :
                 leaderboard[i] \notin Range(top) =>
                   \A k \in 1..Len(top) : top[k].rank < leaderboard[i].rank]_vars

\* the tables one rebuild over the present reputation records can write
SingleRebuild ==
  {[j \in 1..Len(s) |-> LeaderboardRow(s[j], j)] : s \in ScoreQuery}

\* C28: when two requests were received, each a score create or update, and
\* both have answered successfully, in whatever order their statements and
\* those of their rebuilds ran, the table is one that a single rebuild over
\* the reputation records as they now are writes.
C28_QuiescentConsistency ==
  ( /\ requests = 2
    /\ \A p \in Procs :
         pc[p] = Idle /\ result[p].status = "ok" /\ result[p].op \in ScoreWrites )
  => leaderboard \in SingleRebuild

\* C29: in every state in which no rebuild is running, no two entries of
\* the table have the same pseudonymous id and no two have the same rank.
C29_EntriesDistinct ==
  Rebuilding = {} =>
    \A i, j \in 1..Len(leaderboard) :
      i # j => /\ leaderboard[i].pseudonymousId # leaderboard[j].pseudonymousId
               /\ leaderboard[i].rank # leaderboard[j].rank

----------------------------------------------------------------------------
(* Properties of the Identity Registry *)

\* this step is the INSERT of slot p's createUser
Registers(p) == pc[p] = "createUser" /\ pc'[p] = Idle

\* C8: no two identities share a wallet address, and a registration whose
\* wallet address is already registered is refused as a conflict and adds no
\* identity, whichever of two racing registrations reaches the store first.
C8_DuplicateWalletRejected ==
  /\ [](\A i, j \in 1..Len(users) :
          i # j => users[i].walletAddress # users[j].walletAddress)
  /\ [][\A p \in Procs :
          ( /\ Registers(p)
            /\ \E u \in Range(users) : u.walletAddress = arg[p].input.walletAddress )
          => result'[p].status = "conflict" /\ users' = users]_vars

\* C8 witness: of two registrations one was stored and the other was refused
\* for its wallet address, and the wallet has its one identity
C8_Witness ==
  \E p, q \in Procs :
    /\ result[p] = Response("createUser", "ok", NULL)
    /\ result[q] = Response("createUser", "conflict", "users_wallet_address_unique")
    /\ Len(users) = 1

\* C9: no two identities share a pseudonymous id that is not NULL, and a
\* registration whose pseudonymous id is already held by an identity stores
\* nothing, whichever of two racing registrations reaches the store first.
C9_PseudonymsDistinct ==
  /\ [](\A i, j \in 1..Len(users) :
          (i # j /\ users[i].pseudonymousId # NULL)
             => users[i].pseudonymousId # users[j].pseudonymousId)
  /\ [][\A p \in Procs :
          ( /\ Registers(p)
            /\ arg[p].input.pseudonymousId # NULL
            /\ \E u \in Range(users) : u.pseudonymousId = arg[p].input.pseudonymousId )
          => result'[p].status = "conflict" /\ users' = users]_vars

\* C9 witness: a registration for a free wallet address was refused because
\* its generated pseudonymous id was already taken
C9_Witness ==
  \E p \in Procs :
    /\ result[p] = Response("createUser", "conflict", "users_pseudonymous_id_unique")
    /\ Len(users) = 1
    /\ users[1].pseudonymousId # NULL

\* C10: no step changes the wallet address of an identity, or its
\* pseudonymous id once it has one; an updateUser naming either key is
\* refused as a conflict.
C10_WalletAndPseudonymImmutable ==
  [][\A i \in 1..Len(users) :
       /\ users'[i].walletAddress = users[i].walletAddress
       /\ users[i].pseudonymousId # NULL
            => users'[i].pseudonymousId = users[i].pseudonymousId]_vars

----------------------------------------------------------------------------
(* Properties of the Reputation Store *)

\* C11: in every state an identity has at most one reputation record,
\* whatever creates and updates were made, a second create for the same
\* identity included.
C11_OneRecordPerIdentity ==
  \A u \in Range(users) : Cardinality(RecordsOf(u.id)) <= 1

Timestamps == {"lastCalculated", "createdAt", "updatedAt"}

\* this step is the UPDATE of slot p's updateReputationScore, and it found a row
Updates(p) == pc[p] = "updateReputationScore" /\ pc'[p] = "lbDelete"

\* C12: an update leaves every column it does not supply as it was, the
\* overall score, the level and the category scores included: in the rows of
\* the identity the supplied columns take the supplied values, lastCalculated
\* and updatedAt take the current time, nothing else changes, and no
\* category score that was not supplied becomes zero; the other rows are
\* untouched.
C12_PartialUpdateKeepsTheRest ==
  [][\A p \in Procs :
       Updates(p) =>
         LET uid == arg[p].input.userId
             upd == arg[p].input.updates
         IN /\ Len(reputationScores') = Len(reputationScores)
            /\ \A i \in 1..Len(reputationScores) :
                 LET old == reputationScores[i]
                     new == reputationScores'[i]
                 IN IF old.userId # uid THEN new = old
                    ELSE /\ new.lastCalculated = now /\ new.updatedAt = now
                         /\ new.createdAt = old.createdAt
                         /\ \A f \in DOMAIN old \ Timestamps :
                              new[f] = IF f \in DOMAIN upd THEN upd[f] ELSE old[f]]_vars

\* C12 witness: an update that supplied defiScore only has been applied at
\* time 1: defiScore and the two timestamps changed, the rest is as created
C12_Witness ==
  /\ Len(reputationScores) = 1
  /\ reputationScores[1] =
       [InitRecord EXCEPT !.defiScore = 30, !.lastCalculated = 1, !.updatedAt = 1]
  /\ \E p \in Procs : /\ pc[p] = "lbDelete"
                       /\ arg[p].input.updates = [defiScore |-> 30]

\* C18: in every state every stored category score is non-negative: a create
\* or update that supplies a negative one is refused before it reaches the
\* store.
C18_CategoryScoresNonNegative ==
  \A i \in 1..Len(reputationScores) :
    \A f \in CategoryScores : reputationScores[i][f] >= 0

\* the columns of r are what the patches `first` and then `second`, each
\* applied whole, make of InitRecord
AppliedInOrder(first, second, r) ==
  \A f \in DOMAIN InitRecord \ Timestamps :
    r[f] = IF f \in DOMAIN second THEN second[f]
           ELSE IF f \in DOMAIN first THEN first[f]
           ELSE InitRecord[f]

\* slot p's update of identity 1 has been applied and has not answered yet
Applied(p) == arg[p].op = "PutApiReputation" /\ pc[p] \in RebuildPcs

\* C19: when two overlapping partial updates of one identity's record have
\* both been applied, the record is what the two patches make of it applied
\* whole one after the other, in one of the two orders: disjoint patches
\* both take effect, and of two patches on the same columns one wins on all
\* of them.
C19_UpdatesSerialized ==
  \A p, q \in Procs :
    (p # q /\ requests = 2 /\ Applied(p) /\ Applied(q)) =>
      LET a == arg[p].input.updates
          b == arg[q].input.updates
          r == reputationScores[1]
      IN AppliedInOrder(a, b, r) \/ AppliedInOrder(b, a, r)

\* C19 witness: an update of defiScore and an update of nftScore overlapped
\* and the record has both
C19_Witness ==
  /\ requests = 2
  /\ Applied("r1") /\ arg["r1"].input.updates = [defiScore |-> 30]
  /\ Applied("r2") /\ arg["r2"].input.updates = [nftScore |-> 40]
  /\ reputationScores[1].defiScore = 30
  /\ reputationScores[1].nftScore = 40
  /\ reputationScores[1].daoScore = 10

\* this step is the UPDATE of slot p's updateReputationScore
RunsUpdate(p) == pc[p] = "updateReputationScore" /\ pc'[p] # pc[p]

\* C24: an update for an identity that has no record answers not found, adds
\* no record, and leaves the reputation records and the leaderboard as they
\* were; the request ends there, with no rebuild.
C24_UpdateWithoutRecord ==
  [][\A p \in Procs :
       (RunsUpdate(p) /\ RecordsOf(arg[p].input.userId) = {}) =>
         /\ result'[p].status = "notfound"
         /\ pc'[p] = Idle
         /\ reputationScores' = reputationScores
         /\ leaderboard' = leaderboard]_vars

\* C24 witness: identity 1 is ranked, identity 2 has no record, and an
\* update has answered not found
C24_Witness ==
  /\ result[Seq1].op = "PutApiReputation" /\ result[Seq1].status = "notfound"
  /\ RecordsOf(1) # {} /\ RecordsOf(2) = {}
  /\ Len(leaderboard) = Cardinality(RecordsOf(1))
  /\ clean

\* this step is the return of slot p's getReputationScoreByWallet
ReadsByWallet(p) == pc[p] = "getReputationScoreByWallet" /\ pc'[p] = Idle

\* C22: a read by wallet address returns a reputation record of the identity
\* registered for the wallet; when no identity has the wallet, or the
\* identity has no record, it answers not found, which is not an error.
C22_ReadByWallet ==
  [][\A p \in Procs :
       ReadsByWallet(p) =>
         LET owners == {u \in Range(users) : u.walletAddress = arg[p].input}
             theirs == {i \in 1..Len(reputationScores) :
                          \E u \in owners : reputationScores[i].userId = u.id}
         IN IF theirs = {}
              THEN result'[p].status = "notfound"
              ELSE /\ result'[p].status = "ok"
                   /\ \E i \in theirs : result'[p].value = reputationScores[i]]_vars

\* C22 witness: identities 1 and 2 have a record each and a read by the
\* wallet of identity 2 returned the record of identity 2
C22_Witness ==
  /\ RecordsOf(1) # {} /\ RecordsOf(2) # {}
  /\ result[Seq1].op = "getReputationScoreByWallet"
  /\ result[Seq1].status = "ok"
  /\ result[Seq1].value.userId = 2

----------------------------------------------------------------------------
(* Properties of the Proof Registry *)

\* this step is the return of slot p's validateZkProof
Validates(p) == pc[p] = "validateZkProof" /\ pc'[p] = Idle

\* C13: a validity check of a registered proof whose expiry is set and is at
\* or before the current time returns false, the case where the expiry is
\* the current time included.
C13_ExpiredAtOrBeforeNow ==
  [][\A p \in Procs :
       Validates(p) =>
         \A z \in ProofsByHash(arg[p].input) :
           (z.expiresAt # NoTime /\ z.expiresAt <= now) => result'[p].value = FALSE]_vars

\* C14: a validity check answers without an error; it returns false for a
\* hash that is not registered and for a proof whose validity flag is false,
\* and true for a proof whose flag is true and whose expiry is NULL or after
\* the current time.
C14_ValidityCheck ==
  [][\A p \in Procs :
       Validates(p) =>
         /\ result'[p].status = "ok"
         /\ ProofsByHash(arg[p].input) = {} => result'[p].value = FALSE
         /\ \A z \in ProofsByHash(arg[p].input) :
              /\ ~z.isValid => result'[p].value = FALSE
              /\ (z.isValid /\ (z.expiresAt = NoTime \/ z.expiresAt > now))
                   => result'[p].value = TRUE]_vars

\* C14 witness: the only registered proof is flagged valid and expires
\* later, and a check has returned true
C14_Witness ==
  /\ Len(zkProofs) = 1
  /\ zkProofs[1].isValid /\ zkProofs[1].expiresAt > now
  /\ \E p \in Procs : /\ result[p].op = "validateZkProof"
                       /\ result[p].status = "ok"
                       /\ result[p].value = TRUE

\* this step is the INSERT of slot p's createZkProof
RegistersProof(p) == pc[p] = "createZkProof" /\ pc'[p] = Idle

\* C15: no two proofs share a hash; a registration whose hash is already
\* registered is refused as a conflict and leaves the table as it was, so a
\* stored proof is never overwritten, whichever of two racing registrations
\* reaches the store first.
C15_ProofHashWrittenOnce ==
  /\ [](\A i, j \in 1..Len(zkProofs) :
          i # j => zkProofs[i].proofHash # zkProofs[j].proofHash)
  /\ [][\A p \in Procs :
          (RegistersProof(p) /\ ProofsByHash(arg[p].input.proofHash) # {})
            => result'[p].status = "conflict" /\ zkProofs' = zkProofs]_vars
  /\ [][\A i \in 1..Len(zkProofs) :
          Len(zkProofs') >= i /\ zkProofs'[i] = zkProofs[i]]_vars

\* C15 witness: of two registrations one was stored and the other was
\* refused for its hash, and the table holds the one proof
C15_Witness ==
  /\ result["r1"].op = "createZkProof" /\ result["r1"].status = "ok"
  /\ result["r2"].op = "createZkProof" /\ result["r2"].status = "conflict"
  /\ Len(zkProofs) = 1
  /\ zkProofs[1].isValid

\* proof z is not valid at time t: its flag is false or its expiry has passed
Lapsed(z, t) == ~z.isValid \/ (z.expiresAt # NoTime /\ z.expiresAt < t)

\* C30: a validity check of a registered proof returns false exactly when
\* the proof's flag is false or its expiry has passed, and a stored proof of
\* which that is true stays stored under its hash with that still true after
\* every step; so once a check of a registered proof has returned false,
\* every later check of the same hash returns false.
C30_ValidityNeverComesBack ==
  /\ [][\A p \in Procs :
          Validates(p) =>
            \A z \in ProofsByHash(arg[p].input) :
              (result'[p].value = FALSE) <=> Lapsed(z, now)]_vars
  /\ [][\A i \in 1..Len(zkProofs) :
          Lapsed(zkProofs[i], now) =>
            /\ Len(zkProofs') >= i
            /\ zkProofs'[i].proofHash = zkProofs[i].proofHash
            /\ Lapsed(zkProofs'[i], now')]_vars

\* C30 witness: the one registered proof, flagged valid, expired at 1 and the
\* time is 2; one slot holds the false answer of a check and the other is
\* running a later check of the proof's hash
C30_Witness ==
  /\ Len(zkProofs) = 1
  /\ zkProofs[1].proofHash = "0xh1" /\ zkProofs[1].isValid /\ zkProofs[1].expiresAt = 1
  /\ now = 2
  /\ result["r1"].op = "validateZkProof" /\ result["r1"].value = FALSE
  /\ pc["r2"] = "validateZkProof" /\ arg["r2"].input = "0xh1"

\* C23: a validity check changes nothing: identities, reputation records,
\* activities, proofs and the leaderboard are after it as they were before
\* it, for a registered hash and for one that is not.
C23_ValidityCheckIsPure ==
  [][\A p \in Procs :
       Validates(p) =>
         UNCHANGED <<users, usersIdSeq, reputationScores, activities, zkProofs,
                     leaderboard>>]_vars

\* C23 witness: the one registered proof has expired, and the last check in
\* each slot has returned false
C23_Witness ==
  /\ Len(zkProofs) = 1
  /\ zkProofs[1].isValid /\ zkProofs[1].expiresAt # NoTime
  /\ zkProofs[1].expiresAt < now
  /\ \A p \in Procs : /\ result[p].op = "validateZkProof"
                       /\ result[p].value = FALSE

----------------------------------------------------------------------------
(* Properties of the Activity Ledger *)

\* C20: the ledger is append-only: in every step each event already written
\* stays at its place with all its columns unchanged; no operation changes or
\* deletes an event.
C20_LedgerAppendOnly ==
  [][\A i \in 1..Len(activities) :
       Len(activities') >= i /\ activities'[i] = activities[i]]_vars

\* C20 witness: a second event of identity 1 was appended after the first,
\* with an earlier event time, and the ledger has been read
C20_Witness ==
  /\ Len(activities) = 2
  /\ activities[1].userId = 1 /\ activities[2].userId = 1
  /\ activities[1].timestamp > activities[2].timestamp
  /\ \E p \in Procs : /\ result[p].op = "getActivitiesByWallet"
                       /\ Len(result[p].value) = 2

\* this step is the return of slot p's getActivities
Lists(p) == pc[p] = "getActivities" /\ pc'[p] = Idle

\* the events of an identity in the ledger
EventsOf(userId) == {i \in 1..Len(activities) : activities[i].userId = userId}

\* C21: getActivities(userId, limit) returns events of that identity only,
\* min(limit, number of its events) of them, in non-increasing order of the
\* event timestamp, and they are the most recent: for every timestamp later
\* than one returned, all of the identity's events with it are returned;
\* whatever the order in which the events of the identities were appended.
C21_ListMostRecentFirst ==
  [][\A p \in Procs :
       Lists(p) =>
         LET uid == arg[p].input.userId
             lim == arg[p].input.limit
             r == result'[p].value
             n == Cardinality(EventsOf(uid))
             InR(t) == Cardinality({k \in 1..Len(r) : r[k].timestamp = t})
             InLedger(t) ==
               Cardinality({i \in EventsOf(uid) : activities[i].timestamp = t})
         IN /\ Len(r) = IF lim < n THEN lim ELSE n
            /\ \A k \in 1..Len(r) :
                 /\ r[k].userId = uid
                 /\ \E i \in EventsOf(uid) : activities[i] = r[k]
            /\ \A k \in 1..(Len(r) - 1) : r[k].timestamp >= r[k + 1].timestamp
            /\ \A t \in EventTimes :
                 /\ InR(t) <= InLedger(t)
                 /\ (\E k \in 1..Len(r) : r[k].timestamp < t) => InR(t) = InLedger(t)]_vars

\* C21 witness: identity 1's older event was appended after its newer one,
\* with an event of identity 2 in between, and a list of limit 1 returned
\* the newer one
C21_Witness ==
  /\ Len(activities) = 3
  /\ activities[1].userId = 1 /\ activities[1].timestamp = 2
  /\ activities[2].userId = 2
  /\ activities[3].userId = 1 /\ activities[3].timestamp = 1
  /\ \E p \in Procs : /\ result[p].op = "getActivities"
                       /\ Len(result[p].value) = 1
                       /\ result[p].value[1] = activities[1]

====
